---- MODULE Spec2Model ----
(***************************************************************************)
(* Model of the anonymous feedback portal's Express server                 *)
(* (server/index.js): the two JSON collections (categories.json,           *)
(* feedback.json), the admin session flag, and one action per route        *)
(* handler.  Every handler runs to completion on Node's single thread      *)
(* (readFileSync / writeFileSync), so a handler is one atomic action.      *)
(*                                                                         *)
(* Text is a tuple of one-character strings, so that length, lower-casing, *)
(* substring search, number parsing and concatenation are computed.        *)
(***************************************************************************)
EXTENDS Integers, Sequences, FiniteSets, TLC

VARIABLES
  categories,   \* categories.json: sequence of [id, name, description]
  feedback,     \* feedback.json: sequence of feedback entries
  sessions,     \* session store: session id -> req.session.isAdmin is set
  now,          \* the clock read by Date.now() / new Date(), in ms
  uuids,        \* number of values crypto.randomUUID() has returned
  resp,         \* the response of the last request handled
  lastAuth,     \* history: per session, its last successful login / logout
  submitLog,    \* history: per accepted submission, who sent it and when
  handlers,     \* per connection, the request it carries and how far its
                \* handler has come, when handlers are followed step by step
  answers       \* history: what the handlers followed step by step answered

vars ==
  <<categories, feedback, sessions, now, uuids, resp, lastAuth, submitLog, handlers, answers>>

-----------------------------------------------------------------------------
(* Bounds of the model *)

MaxUuids == 2
MaxTime == 2

SessionIds == {"s1", "s2"}

-----------------------------------------------------------------------------
(* Text helpers: the JavaScript string operations the handlers use *)

Digits == <<"0", "1", "2", "3", "4", "5", "6", "7", "8", "9">>

IsDigit(c) == \E i \in 1..10 : Digits[i] = c

DigitVal(c) == (CHOOSE i \in 1..10 : Digits[i] = c) - 1

IsSpace(c) == c = " "

\* String.prototype.toLowerCase, per character
UpperCase == <<"A", "B", "C", "D", "E", "F", "G", "H", "I", "J", "K", "L", "M",
               "N", "O", "P", "Q", "R", "S", "T", "U", "V", "W", "X", "Y", "Z">>

LowerCase == <<"a", "b", "c", "d", "e", "f", "g", "h", "i", "j", "k", "l", "m",
               "n", "o", "p", "q", "r", "s", "t", "u", "v", "w", "x", "y", "z">>

LowerChar(c) ==
  IF \E i \in 1..Len(UpperCase) : UpperCase[i] = c
  THEN LowerCase[CHOOSE i \in 1..Len(UpperCase) : UpperCase[i] = c]
  ELSE c

ToLowerCase(s) == [i \in 1..Len(s) |-> LowerChar(s[i])]

\* String.prototype.includes
Includes(s, q) ==
  \E i \in 0..(Len(s) - Len(q)) : SubSeq(s, i + 1, i + Len(q)) = q

RECURSIVE TrimStart(_)
TrimStart(s) == IF s # <<>> /\ IsSpace(Head(s)) THEN TrimStart(Tail(s)) ELSE s

RECURSIVE TrimEnd(_)
TrimEnd(s) ==
  IF s # <<>> /\ IsSpace(s[Len(s)]) THEN TrimEnd(SubSeq(s, 1, Len(s) - 1)) ELSE s

Trim(s) == TrimEnd(TrimStart(s))

AllDigits(s) == \A i \in 1..Len(s) : IsDigit(s[i])

RECURSIVE DecimalValue(_)
DecimalValue(s) ==
  IF s = <<>> THEN 0
  ELSE 10 * DecimalValue(SubSeq(s, 1, Len(s) - 1)) + DigitVal(s[Len(s)])

\* length of the longest prefix of s made of digits
RECURSIVE DigitPrefixLen(_)
DigitPrefixLen(s) ==
  IF s # <<>> /\ IsDigit(Head(s)) THEN 1 + DigitPrefixLen(Tail(s)) ELSE 0

\* Number.prototype.toString of a non-negative integer
RECURSIVE NatToString(_)
NatToString(n) ==
  IF n < 10 THEN <<Digits[n + 1]>>
  ELSE NatToString(n \div 10) \o <<Digits[(n % 10) + 1]>>

-----------------------------------------------------------------------------
(* JSON / JavaScript values of a request body.                             *)
(* A number is sign, integer part and "has a non-zero fractional part":    *)
(* that decides every comparison with an integer and every truncation.     *)

JV(t, nan, neg, ip, fz, s) ==
  [t |-> t, nan |-> nan, neg |-> neg, ip |-> ip, fz |-> fz, s |-> s]

Undefined == JV("undefined", FALSE, FALSE, 0, FALSE, <<>>)
Null == JV("null", FALSE, FALSE, 0, FALSE, <<>>)
True == JV("boolean", FALSE, FALSE, 1, FALSE, <<>>)
NaN == JV("number", TRUE, FALSE, 0, FALSE, <<>>)
Num(neg, ip, fz) == JV("number", FALSE, neg, ip, fz, <<>>)
IntV(n) == Num(n < 0, IF n < 0 THEN -n ELSE n, FALSE)
Str(s) == JV("string", FALSE, FALSE, 0, FALSE, s)

\* ToBoolean: what `!x` and `x && ...` test; and a variant that takes every
\* value for true
TruthyAlways(v) == TRUE

Truthy(v) ==
  CASE v.t = "undefined" -> FALSE
    [] v.t = "null" -> FALSE
    [] v.t = "boolean" -> v.ip = 1
    [] v.t = "number" -> ~v.nan /\ ~(v.ip = 0 /\ ~v.fz)
    [] v.t = "string" -> v.s # <<>>
    [] OTHER -> TRUE

\* StringToNumber on a sign followed by digits [. digits] or . digits
UnsignedToNumber(neg, b) ==
  LET dots == {i \in 1..Len(b) : b[i] = "."}
  IN  IF dots = {}
      THEN IF b # <<>> /\ AllDigits(b) THEN Num(neg, DecimalValue(b), FALSE) ELSE NaN
      ELSE LET d == CHOOSE i \in dots : \A j \in dots : i <= j
               ipart == SubSeq(b, 1, d - 1)
               fpart == SubSeq(b, d + 1, Len(b))
           IN  IF AllDigits(ipart) /\ AllDigits(fpart) /\ ~(ipart = <<>> /\ fpart = <<>>)
               THEN Num(neg, DecimalValue(ipart),
                        \E i \in 1..Len(fpart) : fpart[i] # "0")
               ELSE NaN

\* ToNumber of a string: white space is trimmed, the empty string is 0
StringToNumber(s) ==
  LET t == Trim(s)
  IN  IF t = <<>> THEN IntV(0)
      ELSE IF Head(t) = "-" THEN UnsignedToNumber(TRUE, Tail(t))
      ELSE IF Head(t) = "+" THEN UnsignedToNumber(FALSE, Tail(t))
      ELSE UnsignedToNumber(FALSE, t)

\* ToNumber, as applied by the relational operators
ToNumber(v) ==
  CASE v.t = "number" -> v
    [] v.t = "string" -> StringToNumber(v.s)
    [] v.t = "boolean" -> IntV(v.ip)
    [] v.t = "null" -> IntV(0)
    [] OTHER -> NaN

\* v < k and v > k for an integer k >= 1; any comparison with NaN is false
LessThanInt(v, k) ==
  LET n == ToNumber(v) IN ~n.nan /\ (n.neg \/ n.ip < k)

GreaterThanInt(v, k) ==
  LET n == ToNumber(v) IN ~n.nan /\ ~n.neg /\ (n.ip > k \/ (n.ip = k /\ n.fz))

\* parseInt of a string: leading white space, a sign, then the digits
ParseIntString(s) ==
  LET t == TrimStart(s)
      neg == t # <<>> /\ Head(t) = "-"
      b == IF t # <<>> /\ (Head(t) = "-" \/ Head(t) = "+") THEN Tail(t) ELSE t
      k == DigitPrefixLen(b)
  IN  IF k = 0 THEN NaN ELSE Num(neg, DecimalValue(SubSeq(b, 1, k)), FALSE)

\* parseInt(v): v is converted to a string first; the decimal string of a
\* number is its sign, its integer part and its fraction
ParseInt(v) ==
  CASE v.t = "string" -> ParseIntString(v.s)
    [] v.t = "number" -> IF v.nan THEN NaN ELSE Num(v.neg, v.ip, FALSE)
    [] OTHER -> NaN

\* JSON.stringify then JSON.parse of a value: NaN is written as null
JsonRoundTrip(v) == IF v.t = "number" /\ v.nan THEN Null ELSE v

\* x.length: defined for a string, undefined for a number or a boolean
LengthOf(v) == IF v.t = "string" THEN IntV(Len(v.s)) ELSE Undefined

-----------------------------------------------------------------------------
(* Values the server computes *)

\* the text of a word, one character per element (model notation only)
GENERAL_ID == <<"g", "e", "n", "e", "r", "a", "l">>
GENERAL_NAME == <<"G", "e", "n", "e", "r", "a", "l">>
GENERAL_DESCRIPTION ==
  <<"G", "e", "n", "e", "r", "a", "l", " ", "f", "e", "e", "d", "b", "a", "c", "k">>

OPEN == <<"o", "p", "e", "n">>
IN_PROGRESS == <<"i", "n", "_", "p", "r", "o", "g", "r", "e", "s", "s">>
COMPLETED == <<"c", "o", "m", "p", "l", "e", "t", "e", "d">>
ALL == <<"a", "l", "l">>

\* the categories file the server writes when there is none
defaultCategories ==
  <<[id |-> GENERAL_ID, name |-> GENERAL_NAME, description |-> GENERAL_DESCRIPTION]>>

\* the n-th value returned by crypto.randomUUID(): never one returned before
\* (122 random bits are taken not to repeat); and a variant that returns
\* the first value again
RandomUUIDAgain(n) == <<"u", "u", "i", "d", "-", "1">>

RandomUUID(n) == <<"u", "u", "i", "d", "-">> \o NatToString(n)

\* Date.prototype.toISOString of the time t (ms), and Date.parse of a text:
\* the time of a well-formed text, NaN (Invalid Date) of any other
ToISOString(t) == <<"T">> \o NatToString(t) \o <<"Z">>

DateParse(s) ==
  IF Len(s) >= 3 /\ s[1] = "T" /\ s[Len(s)] = "Z" /\ AllDigits(SubSeq(s, 2, Len(s) - 1))
  THEN IntV(DecimalValue(SubSeq(s, 2, Len(s) - 1)))
  ELSE NaN

\* a >= b and a <= b on the time values of two Dates (false with Invalid Date)
DateGe(a, b) == ~a.nan /\ ~b.nan /\ a.ip >= b.ip
DateLe(a, b) == ~a.nan /\ ~b.nan /\ a.ip <= b.ip

\* crypto.createHash('sha256').update(x).digest('hex'), taken as free of
\* collisions: the digest stands for the text it was computed from
Sha256Hex(x) == <<"#">> \o x

\* a variant of hashIdentifier that also hashes the session of the request
hashIdentifierOfSession(req, t) ==
  Sha256Hex((IF Truthy(req.ua) THEN req.ua.s ELSE <<>>) \o NatToString(t) \o <<req.session>>)

\* hashIdentifier(req), with Date.now() = t; req is the request: its
\* session, its remote address (ip) and its user-agent header (ua)
hashIdentifier(req, t) ==
  LET userAgent == IF Truthy(req.ua) THEN req.ua.s ELSE <<>>
      timestamp == NatToString(t)
  IN  Sha256Hex(userAgent \o timestamp)

\* String(v) for the values the model passes to it
ToStringV(v) ==
  CASE v.t = "string" -> v.s
    [] v.t = "null" -> <<"n", "u", "l", "l">>
    [] v.t = "undefined" -> <<"u", "n", "d", "e", "f", "i", "n", "e", "d">>
    [] v.t = "boolean" -> <<"t", "r", "u", "e">>
    [] OTHER -> (IF v.neg THEN <<"-">> ELSE <<>>) \o NatToString(v.ip)

\* Array.prototype.findIndex and find, given the set of the positions whose
\* element passes the test: 0 stands for -1 (positions are counted from 1);
\* and a variant that answers the first position whenever one passes
FindIndexFirst(matching) == IF matching = {} THEN 0 ELSE 1

FindIndex(matching) ==
  IF matching = {} THEN 0 ELSE CHOOSE i \in matching : \A j \in matching : i <= j

\* the positions of a list, and a variant that leaves out the last
PositionsButLast(list) == 1..(Len(list) - 1)

Positions(list) == 1..Len(list)

\* a response: status code, error message, and the data of the body
Reply(op, status, error, data, n) ==
  [op |-> op, status |-> status, error |-> error, data |-> data, n |-> n]

Unauthorized(op) == Reply(op, 401, "Unauthorized", <<>>, 0)

\* the connections of the server, each carrying one request at a time
Slots == {1, 2}

NoRequest ==
  [op |-> "none", req |-> [session |-> "s1", ip |-> "", ua |-> Undefined], id |-> <<>>,
   body |-> <<>>]

\* a connection without a request
Idle == [pc |-> "idle", request |-> NoRequest, feedback |-> <<>>]

\* nothing answered yet: no submission saved, no entry deleted, no status
\* set, and no two requests held at a time
NoAnswers == [saved |-> {}, deleted |-> {}, status |-> {}, overlap |-> FALSE]

-----------------------------------------------------------------------------
(* Initial state: a server started without data files, which creates an    *)
(* empty feedback.json and a categories.json holding defaultCategories;    *)
(* normalizeData finds nothing to change.                                  *)

Init ==
  /\ categories = defaultCategories
  /\ feedback = <<>>
  /\ sessions = [s \in SessionIds |-> FALSE]
  /\ now = 0
  /\ uuids = 0
  /\ resp = Reply("start", 0, "", <<>>, 0)
  /\ lastAuth = [s \in SessionIds |-> "none"]
  /\ submitLog = <<>>
  /\ handlers = [k \in Slots |-> Idle]
  /\ answers = NoAnswers

\* time passes between requests
Tick ==
  /\ now < MaxTime
  /\ now' = now + 1
  /\ UNCHANGED <<categories, feedback, sessions, uuids, resp, lastAuth, submitLog, handlers, answers>>

-----------------------------------------------------------------------------
(* POST /api/feedback *)

\* the category lookup: by id, else by lower-cased name; <<>> stands for
\* null; and a variant that looks for the name first
ResolveCategoryNameFirst(category) ==
  LET byId == FindIndex({i \in Positions(categories) : Str(categories[i].id) = category})
      byName == FindIndex({i \in Positions(categories) :
                  ToLowerCase(categories[i].name) = ToLowerCase(ToStringV(category))})
  IN  IF byName # 0 THEN categories[byName].id
      ELSE IF byId # 0 THEN categories[byId].id
      ELSE <<>>

ResolveCategory(category) ==
  LET byId == FindIndex({i \in Positions(categories) : Str(categories[i].id) = category})
      byName == FindIndex({i \in Positions(categories) :
                  ToLowerCase(categories[i].name) = ToLowerCase(ToStringV(category))})
  IN  IF byId # 0 THEN categories[byId].id
      ELSE IF byName # 0 THEN categories[byName].id
      ELSE <<>>

PostFeedbackError(body) ==
  IF ~Truthy(body.category) \/ ~Truthy(body.rating) \/ ~Truthy(body.comment)
  THEN "All fields are required"
  ELSE IF LessThanInt(LengthOf(body.comment), 5)
  THEN "Comment must be at least 5 characters long"
  ELSE IF LessThanInt(body.rating, 1) \/ GreaterThanInt(body.rating, 5)
  THEN "Rating must be between 1 and 5"
  ELSE IF ResolveCategory(body.category) = <<>>
  THEN "Invalid category"
  ELSE ""

\* req: the session, address and user-agent header of the request;
\* t: the time read by Date.now() in hashIdentifier, not before the time
\* read by new Date() one line earlier
PostFeedback(req, body, t) ==
  LET error == PostFeedbackError(body)
      newFeedback ==
        [feedback_id |-> RandomUUID(uuids + 1),
         category |-> ResolveCategory(body.category),
         rating |-> JsonRoundTrip(ParseInt(body.rating)),
         comment |-> body.comment,
         status |-> OPEN,
         admin_note |-> <<>>,
         timestamp |-> ToISOString(now),
         hash |-> hashIdentifier(req, t)]
  IN  IF error # ""
      THEN /\ resp' = Reply("PostFeedback", 400, error, <<>>, 0)
           /\ UNCHANGED <<categories, feedback, sessions, now, uuids, lastAuth, submitLog, handlers, answers>>
      ELSE /\ uuids < MaxUuids
           /\ t \in {now, now + 1}
           /\ t <= MaxTime
           /\ feedback' = Append(feedback, newFeedback)
           /\ uuids' = uuids + 1
           /\ now' = t
           /\ submitLog' = Append(submitLog,
                [feedback_id |-> newFeedback.feedback_id, req |-> req, t |-> t,
                 hash |-> newFeedback.hash])
           /\ resp' = Reply("PostFeedback", 201, "", <<newFeedback.feedback_id>>, 0)
           /\ UNCHANGED <<categories, sessions, lastAuth, handlers, answers>>

-----------------------------------------------------------------------------
(* Sessions: POST /api/admin/login, POST /api/admin/logout,                *)
(* GET /api/admin/check                                                    *)

ADMIN_USERNAME == <<"a", "d", "m", "i", "n">>
ADMIN_PASSWORD == <<"a", "d", "m", "i", "n", "1", "2", "3">>

\* req.session.isAdmin is truthy, and a variant that lets every session in
IsAdminAlways(s) == TRUE

IsAdmin(s) == sessions[s]

\* username === ADMIN_USERNAME && password === ADMIN_PASSWORD, and a variant
\* that forgets the password
CredentialsMatchNameOnly(username, password) == username = Str(ADMIN_USERNAME)

CredentialsMatch(username, password) ==
  username = Str(ADMIN_USERNAME) /\ password = Str(ADMIN_PASSWORD)

\* lastAuth records that the configured credentials were presented, whatever
\* the handler made of them
Login(s, username, password) ==
  /\ lastAuth' = IF username.s = ADMIN_USERNAME /\ password.s = ADMIN_PASSWORD
                 THEN [lastAuth EXCEPT ![s] = "login"] ELSE lastAuth
  /\ IF CredentialsMatch(username, password)
     THEN /\ sessions' = [sessions EXCEPT ![s] = TRUE]
          /\ resp' = Reply("Login", 200, "", <<>>, 0)
          /\ UNCHANGED <<categories, feedback, now, uuids, submitLog, handlers, answers>>
     ELSE /\ resp' = Reply("Login", 401, "Invalid credentials", <<>>, 0)
          /\ UNCHANGED <<categories, feedback, sessions, now, uuids, submitLog, handlers, answers>>

\* req.session.destroy(): the session's data is gone, a later request with
\* the same cookie starts from an empty session
Logout(s) ==
  /\ sessions' = [sessions EXCEPT ![s] = FALSE]
  /\ lastAuth' = [lastAuth EXCEPT ![s] = "logout"]
  /\ resp' = Reply("Logout", 200, "", <<>>, 0)
  /\ UNCHANGED <<categories, feedback, now, uuids, submitLog, handlers, answers>>

Check(s) ==
  /\ resp' = Reply("Check", 200, "", <<IsAdmin(s)>>, 0)
  /\ UNCHANGED <<categories, feedback, sessions, now, uuids, lastAuth, submitLog, handlers, answers>>

-----------------------------------------------------------------------------
(* Categories: GET /api/categories and the admin CRUD routes *)

GetCategories ==
  /\ resp' = Reply("GetCategories", 200, "", categories, 0)
  /\ UNCHANGED <<categories, feedback, sessions, now, uuids, lastAuth, submitLog, handlers, answers>>

AdminGetCategories(s) ==
  /\ resp' = IF ~IsAdmin(s) THEN Unauthorized("AdminGetCategories")
             ELSE Reply("AdminGetCategories", 200, "", categories, 0)
  /\ UNCHANGED <<categories, feedback, sessions, now, uuids, lastAuth, submitLog, handlers, answers>>

\* body: [name, description], each a string or undefined
AdminPostCategory(s, body) ==
  LET newCategory ==
        [id |-> RandomUUID(uuids + 1),
         name |-> body.name.s,
         description |-> IF Truthy(body.description) THEN body.description.s ELSE <<>>]
  IN  IF ~IsAdmin(s)
      THEN /\ resp' = Unauthorized("AdminPostCategory")
           /\ UNCHANGED <<categories, feedback, sessions, now, uuids, lastAuth, submitLog, handlers, answers>>
      ELSE IF ~Truthy(body.name)
      THEN /\ resp' = Reply("AdminPostCategory", 400, "Name is required", <<>>, 0)
           /\ UNCHANGED <<categories, feedback, sessions, now, uuids, lastAuth, submitLog, handlers, answers>>
      ELSE /\ uuids < MaxUuids
           /\ categories' = Append(categories, newCategory)
           /\ uuids' = uuids + 1
           /\ resp' = Reply("AdminPostCategory", 201, "", <<newCategory>>, 0)
           /\ UNCHANGED <<feedback, sessions, now, lastAuth, submitLog, handlers, answers>>

AdminPutCategory(s, id, body) ==
  LET idx == FindIndex({i \in Positions(categories) : categories[i].id = id})
      updated ==
        [categories EXCEPT
           ![idx] = [id |-> @.id,
                     name |-> IF Truthy(body.name) THEN body.name.s ELSE @.name,
                     description |-> IF body.description # Undefined
                                     THEN body.description.s ELSE @.description]]
  IN  IF ~IsAdmin(s)
      THEN /\ resp' = Unauthorized("AdminPutCategory")
           /\ UNCHANGED <<categories, feedback, sessions, now, uuids, lastAuth, submitLog, handlers, answers>>
      ELSE IF idx = 0
      THEN /\ resp' = Reply("AdminPutCategory", 404, "Category not found", <<>>, 0)
           /\ UNCHANGED <<categories, feedback, sessions, now, uuids, lastAuth, submitLog, handlers, answers>>
      ELSE /\ categories' = updated
           /\ resp' = Reply("AdminPutCategory", 200, "", <<updated[idx]>>, 0)
           /\ UNCHANGED <<feedback, sessions, now, uuids, lastAuth, submitLog, handlers, answers>>

\* feedback.some(f => f.category === id) and a variant that never finds a use
InUseNever(id) == FALSE

InUse(id) == \E i \in Positions(feedback) : feedback[i].category = id

AdminDeleteCategory(s, id) ==
  LET exists == \E i \in Positions(categories) : categories[i].id = id
      inUse == InUse(id)
      updated == SelectSeq(categories, LAMBDA c : c.id # id)
  IN  IF ~IsAdmin(s)
      THEN /\ resp' = Unauthorized("AdminDeleteCategory")
           /\ UNCHANGED <<categories, feedback, sessions, now, uuids, lastAuth, submitLog, handlers, answers>>
      ELSE IF ~exists
      THEN /\ resp' = Reply("AdminDeleteCategory", 404, "Category not found", <<>>, 0)
           /\ UNCHANGED <<categories, feedback, sessions, now, uuids, lastAuth, submitLog, handlers, answers>>
      ELSE IF inUse
      THEN /\ resp' = Reply("AdminDeleteCategory", 400,
                            "Cannot delete category in use by feedback", <<>>, 0)
           /\ UNCHANGED <<categories, feedback, sessions, now, uuids, lastAuth, submitLog, handlers, answers>>
      ELSE /\ categories' = updated
           /\ resp' = Reply("AdminDeleteCategory", 200, "", <<>>, 0)
           /\ UNCHANGED <<feedback, sessions, now, uuids, lastAuth, submitLog, handlers, answers>>

-----------------------------------------------------------------------------
(* Admin feedback routes *)

\* a === b between two JavaScript values
StrictEquals(a, b) ==
  /\ a.t = b.t
  /\ CASE a.t = "number" -> ~a.nan /\ ~b.nan /\ a.ip = b.ip /\ a.fz = b.fz
                            /\ (a.neg = b.neg \/ (a.ip = 0 /\ ~a.fz))
       [] OTHER -> a = b

\* Array.prototype.sort with (a, b) => new Date(b.timestamp) - new Date(a.timestamp):
\* newest first, entries of equal time keep their order (the sort is stable);
\* and a variant that leaves the list in the order of the file
SortNone(seq) == seq

RECURSIVE SortNewestFirst(_)
SortNewestFirst(seq) ==
  IF seq = <<>> THEN <<>>
  ELSE LET time(f) == DateParse(f.timestamp).ip
           first == CHOOSE i \in 1..Len(seq) :
                      /\ \A j \in 1..Len(seq) : time(seq[j]) <= time(seq[i])
                      /\ \A j \in 1..(i - 1) : time(seq[j]) < time(seq[i])
       IN  <<seq[first]>> \o
           SortNewestFirst(SubSeq(seq, 1, first - 1) \o SubSeq(seq, first + 1, Len(seq)))

\* the filters of GET /api/admin/feedback, in the order the handler applies
\* them; query: [category, rating, search, startDate, endDate, status], each
\* a string or undefined
ByCategory(list, query) ==
  IF Truthy(query.category) /\ query.category # Str(ALL)
  THEN SelectSeq(list, LAMBDA f : f.category = query.category.s)
  ELSE list

ByRating(list, query) ==
  IF Truthy(query.rating) /\ query.rating # Str(ALL)
  THEN SelectSeq(list, LAMBDA f : StrictEquals(f.rating, ParseInt(query.rating)))
  ELSE list

ByStatus(list, query) ==
  IF Truthy(query.status) /\ query.status # Str(ALL)
  THEN SelectSeq(list, LAMBDA f :
         (IF f.status # <<>> THEN f.status ELSE OPEN) = query.status.s)
  ELSE list

ByStartDate(list, query) ==
  IF Truthy(query.startDate)
  THEN SelectSeq(list, LAMBDA f :
         DateGe(DateParse(f.timestamp), DateParse(query.startDate.s)))
  ELSE list

ByEndDate(list, query) ==
  IF Truthy(query.endDate)
  THEN SelectSeq(list, LAMBDA f :
         DateLe(DateParse(f.timestamp), DateParse(query.endDate.s)))
  ELSE list

\* f.comment.toLowerCase is not a function when the comment is not a string:
\* the filter callback throws and the handler's catch answers 500
SearchThrows(list, query) ==
  /\ Truthy(query.search)
  /\ \E i \in Positions(list) : Truthy(list[i].comment) /\ list[i].comment.t # "string"

BySearch(list, query) ==
  IF Truthy(query.search)
  THEN LET q == ToLowerCase(query.search.s)
       IN  SelectSeq(list, LAMBDA f :
             \/ (Truthy(f.comment) /\ Includes(ToLowerCase(f.comment.s), q))
             \/ (f.admin_note # <<>> /\ Includes(ToLowerCase(f.admin_note), q)))
  ELSE list

BeforeSearch(query) ==
  ByEndDate(ByStartDate(ByStatus(ByRating(ByCategory(feedback, query), query),
                                 query), query), query)

AdminGetFeedback(s, query) ==
  /\ resp' =
       IF ~IsAdmin(s) THEN Unauthorized("AdminGetFeedback")
       ELSE IF SearchThrows(BeforeSearch(query), query)
       THEN Reply("AdminGetFeedback", 500, "Internal server error", <<>>, 0)
       ELSE Reply("AdminGetFeedback", 200, "",
                  SortNewestFirst(BySearch(BeforeSearch(query), query)), 0)
  /\ UNCHANGED <<categories, feedback, sessions, now, uuids, lastAuth, submitLog, handlers, answers>>

AdminGetFeedbackById(s, id) ==
  LET idx == FindIndex({i \in Positions(feedback) : feedback[i].feedback_id = id})
  IN  /\ resp' =
           IF ~IsAdmin(s) THEN Unauthorized("AdminGetFeedbackById")
           ELSE IF idx = 0
           THEN Reply("AdminGetFeedbackById", 404, "Feedback not found", <<>>, 0)
           ELSE Reply("AdminGetFeedbackById", 200, "", <<feedback[idx]>>, 0)
      /\ UNCHANGED <<categories, feedback, sessions, now, uuids, lastAuth, submitLog, handlers, answers>>

\* allowed.includes(status) and a variant that lets any string through
AllowedStatusAnyString(status) == status.t = "string"

AllowedStatus(status) ==
  LET allowed == {Str(OPEN), Str(IN_PROGRESS), Str(COMPLETED)}
  IN  status \in allowed

\* categories.some(c => c.id === category), a variant that finds every value
\* valid and a variant that only asks for a string
ValidCategoryAlways(category) == TRUE

ValidCategoryAnyString(category) == category.t = "string"

ValidCategory(category) ==
  \E i \in Positions(categories) : Str(categories[i].id) = category

\* body: [status, admin_note, category], each any JSON value or undefined
AdminPutFeedback(s, id, body) ==
  LET idx == FindIndex({i \in Positions(feedback) : feedback[i].feedback_id = id})
      valid == ValidCategory(body.category)
      updated ==
        [feedback EXCEPT
           ![idx] = [@ EXCEPT
             !.status = IF body.status # Undefined THEN body.status.s ELSE @,
             !.admin_note = IF body.admin_note # Undefined
                            THEN ToStringV(body.admin_note) ELSE @,
             !.category = IF body.category # Undefined THEN body.category.s ELSE @]]
  IN  IF ~IsAdmin(s)
      THEN /\ resp' = Unauthorized("AdminPutFeedback")
           /\ UNCHANGED <<categories, feedback, sessions, now, uuids, lastAuth, submitLog, handlers, answers>>
      ELSE IF idx = 0
      THEN /\ resp' = Reply("AdminPutFeedback", 404, "Feedback not found", <<>>, 0)
           /\ UNCHANGED <<categories, feedback, sessions, now, uuids, lastAuth, submitLog, handlers, answers>>
      ELSE IF body.status # Undefined /\ ~AllowedStatus(body.status)
      THEN /\ resp' = Reply("AdminPutFeedback", 400, "Invalid status", <<>>, 0)
           /\ UNCHANGED <<categories, feedback, sessions, now, uuids, lastAuth, submitLog, handlers, answers>>
      ELSE IF body.category # Undefined /\ ~valid
      THEN /\ resp' = Reply("AdminPutFeedback", 400, "Invalid category", <<>>, 0)
           /\ UNCHANGED <<categories, feedback, sessions, now, uuids, lastAuth, submitLog, handlers, answers>>
      ELSE /\ feedback' = updated
           /\ resp' = Reply("AdminPutFeedback", 200, "", <<updated[idx]>>, 0)
           /\ UNCHANGED <<categories, sessions, now, uuids, lastAuth, submitLog, handlers, answers>>

AdminDeleteFeedback(s, id) ==
  LET exists == \E i \in Positions(feedback) : feedback[i].feedback_id = id
      updated == SelectSeq(feedback, LAMBDA f : f.feedback_id # id)
  IN  IF ~IsAdmin(s)
      THEN /\ resp' = Unauthorized("AdminDeleteFeedback")
           /\ UNCHANGED <<categories, feedback, sessions, now, uuids, lastAuth, submitLog, handlers, answers>>
      ELSE IF ~exists
      THEN /\ resp' = Reply("AdminDeleteFeedback", 404, "Feedback not found", <<>>, 0)
           /\ UNCHANGED <<categories, feedback, sessions, now, uuids, lastAuth, submitLog, handlers, answers>>
      ELSE /\ feedback' = updated
           /\ resp' = Reply("AdminDeleteFeedback", 200, "", <<>>, 1)
           /\ UNCHANGED <<categories, sessions, now, uuids, lastAuth, submitLog, handlers, answers>>

\* new Set(ids): the values of the array, each once; and a variant that
\* holds the first value only
NewSetOfFirst(items) == {items[1]}

NewSet(items) == {items[i] : i \in 1..Len(items)}

\* ids: [isArray, items]: whether body.ids is an array, and its elements,
\* JavaScript values; set.has(f.feedback_id) compares the text feedback_id
\* with them, and a value that is no text equals none
AdminBulkDelete(s, ids) ==
  LET set == NewSet(ids.items)
      before == Len(feedback)
      updated == SelectSeq(feedback, LAMBDA f : Str(f.feedback_id) \notin set)
      deleted == before - Len(updated)
  IN  IF ~IsAdmin(s)
      THEN /\ resp' = Unauthorized("AdminBulkDelete")
           /\ UNCHANGED <<categories, feedback, sessions, now, uuids, lastAuth, submitLog, handlers, answers>>
      ELSE IF ~ids.isArray \/ Len(ids.items) = 0
      THEN /\ resp' = Reply("AdminBulkDelete", 400, "ids array is required", <<>>, 0)
           /\ UNCHANGED <<categories, feedback, sessions, now, uuids, lastAuth, submitLog, handlers, answers>>
      ELSE /\ feedback' = updated
           /\ resp' = Reply("AdminBulkDelete", 200, "", <<>>, deleted)
           /\ UNCHANGED <<categories, sessions, now, uuids, lastAuth, submitLog, handlers, answers>>

-----------------------------------------------------------------------------
(* GET /api/admin/analytics *)

\* an object literal {} filled by acc[key] = ...: its own properties, in the
\* order they were created, as [key, value]; what it inherits is
\* Object.prototype, of whose members a key made of lower-case letters,
\* digits and "_" can name two: constructor (the function Object) and
\* __proto__ (an accessor: it reads Object.prototype, and ignores the
\* assignment of a number or a string)
CONSTRUCTOR == <<"c", "o", "n", "s", "t", "r", "u", "c", "t", "o", "r">>
PROTO == <<"_", "_", "p", "r", "o", "t", "o", "_", "_">>

\* String(Object) and String(Object.prototype), each text as one element
NATIVE_OBJECT == <<"function Object() { [native code] }">>
OBJECT_OBJECT == <<"[object Object]">>

OwnIndex(obj, key) == FindIndex({i \in Positions(obj) : obj[i].key = key})

\* acc[key]
GetProperty(obj, key) ==
  IF OwnIndex(obj, key) # 0 THEN obj[OwnIndex(obj, key)].value
  ELSE IF key = CONSTRUCTOR THEN JV("function", FALSE, FALSE, 0, FALSE, NATIVE_OBJECT)
  ELSE IF key = PROTO THEN JV("object", FALSE, FALSE, 0, FALSE, OBJECT_OBJECT)
  ELSE Undefined

\* acc[key] = value, for a number or a string
SetProperty(obj, key, value) ==
  IF key = PROTO THEN obj
  ELSE IF OwnIndex(obj, key) # 0
  THEN [obj EXCEPT ![OwnIndex(obj, key)] = [key |-> key, value |-> value]]
  ELSE Append(obj, [key |-> key, value |-> value])

\* (v || 0) + 1: a number is incremented, to any other truthy value the
\* text "1" is appended; and a variant that forgets the count so far
OrZeroPlusOneForgets(v) == IntV(1)

OrZeroPlusOne(v) ==
  IF ~Truthy(v) THEN IntV(1)
  ELSE IF v.t = "number" THEN IntV(v.ip + 1)
  ELSE Str(v.s \o <<"1">>)

\* keys.reduce((acc, key) => { acc[key] = (acc[key] || 0) + 1; return acc }, {}),
\* with acc the object built so far
RECURSIVE CountInto(_, _)
CountInto(acc, keys) ==
  IF keys = <<>> THEN acc
  ELSE CountInto(SetProperty(acc, Head(keys), OrZeroPlusOne(GetProperty(acc, Head(keys)))),
                 Tail(keys))

\* a property key that is an array index (a canonical integer below
\* 2^32 - 1): it is listed before the other keys, in ascending order
IsArrayIndex(key) ==
  /\ key # <<>>
  /\ AllDigits(key)
  /\ (Len(key) = 1 \/ key[1] # "0")
  /\ \/ Len(key) <= 9
     \/ /\ Len(key) = 10
        /\ LET high == DecimalValue(SubSeq(key, 1, 9))
           IN  high < 429496729 \/ (high = 429496729 /\ DigitVal(key[10]) < 5)

RECURSIVE AscendingIndex(_)
AscendingIndex(entries) ==
  IF entries = <<>> THEN <<>>
  ELSE LET first == CHOOSE i \in Positions(entries) :
                      \A j \in Positions(entries) :
                        DecimalValue(entries[i].key) <= DecimalValue(entries[j].key)
       IN  <<entries[first]>> \o
           AscendingIndex(SubSeq(entries, 1, first - 1) \o
                          SubSeq(entries, first + 1, Len(entries)))

\* Object.entries(obj), which is also the order JSON.stringify writes
ObjectEntries(obj) ==
  AscendingIndex(SelectSeq(obj, LAMBDA e : IsArrayIndex(e.key))) \o
  SelectSeq(obj, LAMBDA e : ~IsArrayIndex(e.key))

\* \w
IsWordChar(c) ==
  \/ IsDigit(c)
  \/ c = "_"
  \/ \E i \in 1..Len(LowerCase) : LowerCase[i] = c \/ UpperCase[i] = c

\* length of the longest prefix of s made of word characters
RECURSIVE WordPrefixLen(_)
WordPrefixLen(s) ==
  IF s # <<>> /\ IsWordChar(Head(s)) THEN 1 + WordPrefixLen(Tail(s)) ELSE 0

\* s.match(/\b\w{4,}\b/g) || []: the maximal runs of word characters that
\* are at least 4 long, from left to right
RECURSIVE MatchWords(_)
MatchWords(s) ==
  IF s = <<>> THEN <<>>
  ELSE LET k == WordPrefixLen(s)
       IN  IF k = 0 THEN MatchWords(Tail(s))
           ELSE IF k >= 4
           THEN <<SubSeq(s, 1, k)>> \o MatchWords(SubSeq(s, k + 1, Len(s)))
           ELSE MatchWords(SubSeq(s, k + 1, Len(s)))

\* list.map(f => f.comment).join(' '): null and undefined are joined as ''
RECURSIVE JoinComments(_)
JoinComments(list) ==
  IF list = <<>> THEN <<>>
  ELSE LET text(v) == IF v.t \in {"null", "undefined"} THEN <<>> ELSE ToStringV(v)
       IN  IF Len(list) = 1 THEN text(list[1].comment)
           ELSE text(list[1].comment) \o <<" ">> \o JoinComments(Tail(list))

\* (sum / totalFeedback).toFixed(1) for an integer sum >= 0: the nearest
\* number of tenths, the larger of two equally near; the text printed is
\* exact while totalFeedback is no multiple of 20
ToFixed1(sum, totalFeedback) ==
  LET tenths == (20 * sum + totalFeedback) \div (2 * totalFeedback)
  IN  NatToString(tenths \div 10) \o <<".">> \o NatToString(tenths % 10)

\* feedback.reduce((sum, f) => sum + f.rating, 0): a stored rating is a
\* number or null, and null adds 0
RECURSIVE SumRatings(_)
SumRatings(list) ==
  IF list = <<>> THEN 0
  ELSE (IF list[1].rating.t = "number" THEN list[1].rating.ip ELSE 0) +
       SumRatings(Tail(list))

\* entries.sort(([,a], [,b]) => b - a): a stable sort by descending count
RECURSIVE SortByCountDescending(_)
SortByCountDescending(entries) ==
  IF entries = <<>> THEN <<>>
  ELSE LET first == CHOOSE i \in Positions(entries) :
                      /\ \A j \in Positions(entries) :
                           entries[j].value.ip <= entries[i].value.ip
                      /\ \A j \in 1..(i - 1) : entries[j].value.ip < entries[i].value.ip
       IN  <<entries[first]>> \o
           SortByCountDescending(SubSeq(entries, 1, first - 1) \o
                                 SubSeq(entries, first + 1, Len(entries)))

\* the comparator is consistent when b - a is a number for every pair; a
\* count that is a text makes it NaN, and the order the sort produces with
\* an inconsistent comparator is implementation-defined
ConsistentComparator(entries) ==
  \/ \A i \in Positions(entries) : entries[i].value.t = "number"
  \/ \A i \in Positions(entries) : \A j \in Positions(entries) :
       (entries[i].value.t = "number" /\ entries[j].value.t = "number") =>
         entries[i].value.ip = entries[j].value.ip

\* what the sort can return: when the comparator answers NaN (taken as 0)
\* for some pairs and is still consistent, every element compares equal and
\* the stable sort keeps the order; when it is inconsistent, any order
SortOutcomes(entries) ==
  IF \A i \in Positions(entries) : entries[i].value.t = "number"
  THEN {SortByCountDescending(entries)}
  ELSE IF ConsistentComparator(entries) THEN {entries}
  ELSE {[i \in Positions(entries) |-> entries[p[i]]] : p \in Permutations(Positions(entries))}

\* .slice(0, 10)
Slice10(list) == SubSeq(list, 1, IF Len(list) < 10 THEN Len(list) ELSE 10)

\* the body of the answer, given what the sort returned
AnalyticsBody(sorted) ==
  LET totalFeedback == Len(feedback)
      averageRating == IF totalFeedback > 0
                       THEN Str(ToFixed1(SumRatings(feedback), totalFeedback))
                       ELSE IntV(0)
      categoryStats == CountInto(<<>>, [i \in Positions(feedback) |-> feedback[i].category])
      categoryMap == [i \in Positions(categories) |->
                        [key |-> categories[i].id, value |-> Str(categories[i].name)]]
      ratingStats == CountInto(<<>>, [i \in Positions(feedback) |->
                                        ToStringV(feedback[i].rating)])
      statusStats == CountInto(<<>>, [i \in Positions(feedback) |->
                        IF feedback[i].status # <<>> THEN feedback[i].status ELSE OPEN])
      commonWords == [i \in Positions(Slice10(sorted)) |->
                        [word |-> sorted[i].key, count |-> sorted[i].value]]
  IN  [totalFeedback |-> totalFeedback,
       averageRating |-> averageRating,
       categoryStats |-> ObjectEntries(categoryStats),
       categoryMap |-> ObjectEntries(categoryMap),
       ratingStats |-> ObjectEntries(ratingStats),
       statusStats |-> ObjectEntries(statusStats),
       commonWords |-> commonWords]

\* GET /api/admin/analytics reads both files and writes neither
AdminGetAnalytics(s) ==
  LET allComments == ToLowerCase(JoinComments(feedback))
      words == MatchWords(allComments)
      wordCount == CountInto(<<>>, words)
  IN  /\ IF ~IsAdmin(s) THEN resp' = Unauthorized("AdminGetAnalytics")
         ELSE \E sorted \in SortOutcomes(ObjectEntries(wordCount)) :
                resp' = Reply("AdminGetAnalytics", 200, "", <<AnalyticsBody(sorted)>>,
                              Len(feedback))
      /\ UNCHANGED <<categories, feedback, sessions, now, uuids, lastAuth, submitLog, handlers, answers>>

-----------------------------------------------------------------------------
(* The handlers of the feedback file, followed step by step.  A request    *)
(* is received on a connection while other requests are served             *)
(* (express.json reads its body); then its handler is called: it reads     *)
(* feedback.json into memory (HandlerReads), and then changes the list in  *)
(* memory, writes the whole file and answers (HandlerWrites).              *)
(* request: [op, req, id, body]                                            *)

\* The handlers are synchronous functions: readFileSync, writeFileSync, no
\* await and no callback between the two, so Node calls a handler only when
\* no other handler is between its read and its write.  And a variant in
\* which a handler is called at any time.
CallStackEmptyAlways == TRUE

CallStackEmpty == \A k \in Slots : handlers[k].pc # "loaded"

Receive(k, request) ==
  /\ handlers[k].pc = "idle"
  /\ handlers' = [handlers EXCEPT ![k] = [Idle EXCEPT !.pc = "received", !.request = request]]
  /\ UNCHANGED <<categories, feedback, sessions, now, uuids, resp, lastAuth, submitLog, answers>>

\* what the handler answers before it reads the feedback file: "" when it
\* goes on to read it
AnswerBeforeRead(request) ==
  IF request.op = "PostFeedback" THEN PostFeedbackError(request.body)
  ELSE IF ~IsAdmin(request.req.session) THEN "Unauthorized"
  ELSE ""

\* the handler is called and runs up to its readFeedback()
HandlerReads(k) ==
  LET request == handlers[k].request
      error == AnswerBeforeRead(request)
  IN  /\ handlers[k].pc = "received"
      /\ CallStackEmpty
      /\ IF error # ""
         THEN /\ resp' = Reply(request.op, IF error = "Unauthorized" THEN 401 ELSE 400,
                               error, <<>>, 0)
              /\ handlers' = [handlers EXCEPT ![k] = Idle]
         ELSE /\ request.op = "PostFeedback" => uuids < MaxUuids
              /\ handlers' = [handlers EXCEPT ![k] = [@ EXCEPT !.pc = "loaded",
                                                               !.feedback = feedback]]
              /\ UNCHANGED resp
      /\ UNCHANGED <<categories, feedback, sessions, now, uuids, lastAuth, submitLog, answers>>

\* another request is held by the server while this handler answers
Overlaps(k) == \E o \in Slots \ {k} : handlers[o].pc # "idle"

\* POST /api/feedback from readFeedback() on: push, writeFeedback, 201
PostFeedbackWrites(k) ==
  LET request == handlers[k].request
      list == handlers[k].feedback
      newFeedback ==
        [feedback_id |-> RandomUUID(uuids + 1),
         category |-> ResolveCategory(request.body.category),
         rating |-> JsonRoundTrip(ParseInt(request.body.rating)),
         comment |-> request.body.comment,
         status |-> OPEN,
         admin_note |-> <<>>,
         timestamp |-> ToISOString(now),
         hash |-> hashIdentifier(request.req, now)]
  IN  /\ uuids < MaxUuids
      /\ feedback' = Append(list, newFeedback)
      /\ uuids' = uuids + 1
      /\ submitLog' = Append(submitLog,
           [feedback_id |-> newFeedback.feedback_id, req |-> request.req, t |-> now,
            hash |-> newFeedback.hash])
      /\ resp' = Reply("PostFeedback", 201, "", <<newFeedback.feedback_id>>, 0)
      /\ answers' = [answers EXCEPT !.saved = @ \cup {newFeedback.feedback_id},
                                    !.overlap = @ \/ Overlaps(k)]
      /\ UNCHANGED <<categories, sessions, now, lastAuth>>

\* PUT /api/admin/feedback/:id from readFeedback() on
AdminPutFeedbackWrites(k) ==
  LET request == handlers[k].request
      id == request.id
      body == request.body
      list == handlers[k].feedback
      idx == FindIndex({i \in Positions(list) : list[i].feedback_id = id})
      updated ==
        [list EXCEPT
           ![idx] = [@ EXCEPT
             !.status = IF body.status # Undefined THEN body.status.s ELSE @,
             !.admin_note = IF body.admin_note # Undefined
                            THEN ToStringV(body.admin_note) ELSE @,
             !.category = IF body.category # Undefined THEN body.category.s ELSE @]]
  IN  IF idx = 0
      THEN /\ resp' = Reply("AdminPutFeedback", 404, "Feedback not found", <<>>, 0)
           /\ UNCHANGED <<categories, feedback, sessions, now, uuids, lastAuth, submitLog, answers>>
      ELSE IF body.status # Undefined /\ ~AllowedStatus(body.status)
      THEN /\ resp' = Reply("AdminPutFeedback", 400, "Invalid status", <<>>, 0)
           /\ UNCHANGED <<categories, feedback, sessions, now, uuids, lastAuth, submitLog, answers>>
      ELSE IF body.category # Undefined /\ ~ValidCategory(body.category)
      THEN /\ resp' = Reply("AdminPutFeedback", 400, "Invalid category", <<>>, 0)
           /\ UNCHANGED <<categories, feedback, sessions, now, uuids, lastAuth, submitLog, answers>>
      ELSE /\ feedback' = updated
           /\ resp' = Reply("AdminPutFeedback", 200, "", <<updated[idx]>>, 0)
           /\ answers' =
                [answers EXCEPT
                   !.status = IF body.status # Undefined
                              THEN {a \in @ : a[1] # id} \cup {<<id, body.status.s>>}
                              ELSE @,
                   !.overlap = @ \/ Overlaps(k)]
           /\ UNCHANGED <<categories, sessions, now, uuids, lastAuth, submitLog>>

\* DELETE /api/admin/feedback/:id from readFeedback() on
AdminDeleteFeedbackWrites(k) ==
  LET id == handlers[k].request.id
      list == handlers[k].feedback
      exists == \E i \in Positions(list) : list[i].feedback_id = id
      updated == SelectSeq(list, LAMBDA f : f.feedback_id # id)
  IN  IF ~exists
      THEN /\ resp' = Reply("AdminDeleteFeedback", 404, "Feedback not found", <<>>, 0)
           /\ UNCHANGED <<categories, feedback, sessions, now, uuids, lastAuth, submitLog, answers>>
      ELSE /\ feedback' = updated
           /\ resp' = Reply("AdminDeleteFeedback", 200, "", <<>>, 1)
           /\ answers' = [answers EXCEPT !.deleted = @ \cup {id},
                                         !.overlap = @ \/ Overlaps(k)]
           /\ UNCHANGED <<categories, sessions, now, uuids, lastAuth, submitLog>>

\* the handler runs from its readFeedback() to its answer
HandlerWrites(k) ==
  /\ handlers[k].pc = "loaded"
  /\ handlers' = [handlers EXCEPT ![k] = Idle]
  /\ CASE handlers[k].request.op = "PostFeedback" -> PostFeedbackWrites(k)
       [] handlers[k].request.op = "AdminPutFeedback" -> AdminPutFeedbackWrites(k)
       [] handlers[k].request.op = "AdminDeleteFeedback" -> AdminDeleteFeedbackWrites(k)

-----------------------------------------------------------------------------
(* Requests the model sends *)

\* texts, one character per element
GOOD_COMMENT == <<"G", "o", "o", "d", " ", "t", "a", "l", "k">>
SHORT_COMMENT == <<"g", "o", "o", "d">>
BUGS_NAME == <<"B", "u", "g", "s">>
CLOSED == <<"c", "l", "o", "s", "e", "d">>
NOTE == <<"t", "o", "d", "o">>
UNKNOWN_ID == <<"n", "o", "n", "e">>
MOZILLA == <<"M", "o", "z">>

\* every id a stored record can have, and one that none has
Ids == {GENERAL_ID, UNKNOWN_ID} \cup {RandomUUID(n) : n \in 1..MaxUuids}

Client(s) == [session |-> s, ip |-> "10.0.0.1", ua |-> Str(MOZILLA)]

Bodies(cs, rs, ms) == [category : cs, rating : rs, comment : ms]

NoUpdate == [status |-> Undefined, admin_note |-> Undefined, category |-> Undefined]

NoQuery ==
  [category |-> Undefined, rating |-> Undefined, search |-> Undefined,
   startDate |-> Undefined, endDate |-> Undefined, status |-> Undefined]

Array(items) == [isArray |-> TRUE, items |-> items]

CoreSubmissions ==
  Bodies({Str(GENERAL_ID), Str(RandomUUID(1)), Str(UNKNOWN_ID)}, {IntV(3)},
         {Str(GOOD_COMMENT)})

CoreCategoryBodies ==
  {[name |-> Str(BUGS_NAME), description |-> Undefined],
   [name |-> Undefined, description |-> Str(NOTE)]}

CoreFeedbackUpdates ==
  {[NoUpdate EXCEPT !.status = Str(IN_PROGRESS)],
   [NoUpdate EXCEPT !.status = Str(CLOSED)],
   [NoUpdate EXCEPT !.category = Null],
   [NoUpdate EXCEPT !.status = Str(IN_PROGRESS), !.category = Str(UNKNOWN_ID)]}
  \cup {[NoUpdate EXCEPT !.category = Str(id)] : id \in Ids}

CoreQueries == {NoQuery, [NoQuery EXCEPT !.status = Str(OPEN)]}

CoreBulkIds ==
  {[isArray |-> FALSE, items |-> <<>>], Array(<<>>), Array(<<Str(UNKNOWN_ID)>>)}
  \cup {Array(<<Str(RandomUUID(1)), Str(id)>>) : id \in Ids}

CoreLogins ==
  {<<Str(ADMIN_USERNAME), Str(ADMIN_PASSWORD)>>,
   <<Str(ADMIN_USERNAME), Str(ADMIN_USERNAME)>>,
   <<Str(MOZILLA), Str(ADMIN_PASSWORD)>>,
   <<Undefined, Undefined>>}

-----------------------------------------------------------------------------
(* The requests of a set S of sessions, with the given request contents *)

Submit(S, bodies) ==
  \E s \in S : \E body \in bodies : PostFeedback(Client(s), body, now)

DoLogin(S) == \E s \in S : \E c \in CoreLogins : Login(s, c[1], c[2])

DoLogout(S) == \E s \in S : Logout(s)

DoCheck(S) == \E s \in S : Check(s)

ListCategories(S) == \E s \in S : AdminGetCategories(s)

CreateCategory(S, bodies) ==
  \E s \in S : \E body \in bodies : AdminPostCategory(s, body)

UpdateCategory(S, ids, bodies) ==
  \E s \in S : \E id \in ids : \E body \in bodies : AdminPutCategory(s, id, body)

DeleteCategory(S, ids) == \E s \in S : \E id \in ids : AdminDeleteCategory(s, id)

ListFeedback(S, queries) ==
  \E s \in S : \E query \in queries : AdminGetFeedback(s, query)

GetFeedback(S, ids) == \E s \in S : \E id \in ids : AdminGetFeedbackById(s, id)

UpdateFeedback(S, ids, bodies) ==
  \E s \in S : \E id \in ids : \E body \in bodies : AdminPutFeedback(s, id, body)

DeleteFeedback(S, ids) == \E s \in S : \E id \in ids : AdminDeleteFeedback(s, id)

BulkDelete(S, idLists) == \E s \in S : \E ids \in idLists : AdminBulkDelete(s, ids)

Analytics(S) == \E s \in S : AdminGetAnalytics(s)

-----------------------------------------------------------------------------
(* Spec: one browser session (s1) sends every kind of request *)

One == {"s1"}

Next ==
  \/ Submit(One, CoreSubmissions)
  \/ DoLogin(One)
  \/ DoLogout(One)
  \/ DoCheck(One)
  \/ GetCategories
  \/ ListCategories(One)
  \/ CreateCategory(One, CoreCategoryBodies)
  \/ UpdateCategory(One, Ids, CoreCategoryBodies)
  \/ DeleteCategory(One, Ids)
  \/ ListFeedback(One, CoreQueries)
  \/ GetFeedback(One, Ids)
  \/ UpdateFeedback(One, Ids, CoreFeedbackUpdates)
  \/ DeleteFeedback(One, Ids)
  \/ BulkDelete(One, CoreBulkIds)
  \/ Analytics(One)

Spec == Init /\ [][Next]_vars

-----------------------------------------------------------------------------------------------------------------------------------------------------
(* SpecAuth: two browser sessions send every kind of request *)

AuthSubmissions == Bodies({Str(GENERAL_ID)}, {IntV(3)}, {Str(GOOD_COMMENT)})

AuthCategoryBodies == {[name |-> Str(BUGS_NAME), description |-> Undefined]}

AuthIds == {GENERAL_ID, RandomUUID(1)}

AuthFeedbackUpdates == {[NoUpdate EXCEPT !.status = Str(IN_PROGRESS)]}

AuthBulkIds == {Array(<<Str(RandomUUID(1))>>)}

\* a request of session s to one of the admin data routes
AdminRequest(s) ==
  \/ ListCategories({s})
  \/ CreateCategory({s}, AuthCategoryBodies)
  \/ UpdateCategory({s}, AuthIds, AuthCategoryBodies)
  \/ DeleteCategory({s}, AuthIds)
  \/ ListFeedback({s}, {NoQuery})
  \/ GetFeedback({s}, AuthIds)
  \/ UpdateFeedback({s}, AuthIds, AuthFeedbackUpdates)
  \/ DeleteFeedback({s}, AuthIds)
  \/ BulkDelete({s}, AuthBulkIds)
  \/ Analytics({s})

NextAuth ==
  \/ Submit(One, AuthSubmissions)
  \/ DoLogin(SessionIds)
  \/ DoLogout(SessionIds)
  \/ DoCheck(SessionIds)
  \/ \E s \in SessionIds : AdminRequest(s)

SpecAuth == Init /\ [][NextAuth]_vars

-----------------------------------------------------------------------------
(* SpecStatus: submissions, and admin updates with every kind of status *)

StatusUpdates ==
  [status : {Undefined, Null, IntV(1), Str(<<>>), Str(OPEN), Str(IN_PROGRESS),
             Str(COMPLETED), Str(CLOSED)},
   admin_note : {Undefined, Str(NOTE)},
   category : {Undefined}]

NextStatus ==
  \/ Submit(One, AuthSubmissions)
  \/ DoLogin(One)
  \/ DoLogout(One)
  \/ UpdateFeedback(One, Ids, StatusUpdates)

SpecStatus == Init /\ [][NextStatus]_vars

-----------------------------------------------------------------------------
(* SpecSubmit: POST /api/feedback with every kind of request body *)

FIVE_COMMENT == <<"G", "o", "o", "d", "!">>
GENERAL_UPPER == <<"G", "E", "N", "E", "R", "A", "L">>
TRAINER_QUALITY ==
  <<"T", "r", "a", "i", "n", "e", "r", " ", "Q", "u", "a", "l", "i", "t", "y">>
COURSE_CONTENT ==
  <<"C", "o", "u", "r", "s", "e", " ", "C", "o", "n", "t", "e", "n", "t">>
PLACEMENT_TIPS ==
  <<"P", "l", "a", "c", "e", "m", "e", "n", "t", " ", "T", "i", "p", "s">>
OTHERS == <<"O", "t", "h", "e", "r", "s">>

\* the categories the home page's form offers
HomePageCategories == {TRAINER_QUALITY, COURSE_CONTENT, PLACEMENT_TIPS, OTHERS}

\* what the home page sends: one of its categories, a star rating (a
\* number, 1 to 5) and a comment of at least 5 characters
HomePageSubmissions ==
  Bodies({Str(c) : c \in HomePageCategories}, {IntV(r) : r \in 1..5},
         {Str(GOOD_COMMENT), Str(FIVE_COMMENT)})

\* numbers (0, 1, 5, 6, -1, 0.5, 4.5, 5.5), strings ("", "3", "6", " 4 ",
\* "4.7", "abc"), true, null and a missing rating
RatingInputs ==
  {Undefined, Null, True,
   IntV(0), IntV(1), IntV(5), IntV(6), IntV(-1),
   Num(FALSE, 0, TRUE), Num(FALSE, 4, TRUE), Num(FALSE, 5, TRUE),
   Str(<<>>), Str(<<"3">>), Str(<<"6">>), Str(<<" ", "4", " ">>),
   Str(<<"4", ".", "7">>), Str(<<"a", "b", "c">>)}

\* strings of 0, 4, 5 and 9 characters, the numbers 0 and 12345, and a
\* missing comment
CommentInputs ==
  {Undefined, Str(<<>>), Str(SHORT_COMMENT), Str(FIVE_COMMENT), Str(GOOD_COMMENT),
   IntV(0), IntV(12345)}

CategoryInputs ==
  {Undefined, Str(GENERAL_ID), Str(GENERAL_UPPER), Str(UNKNOWN_ID)}

AnySubmissions == Bodies(CategoryInputs, RatingInputs, CommentInputs)

NextSubmit ==
  \/ Submit(One, AnySubmissions)
  \/ Submit(One, HomePageSubmissions)

SpecSubmit == Init /\ [][NextSubmit]_vars

-----------------------------------------------------------------------------
(* SpecHash: submissions of several clients while time passes; the clock   *)
(* may move between the handler's two readings of it                       *)

HashClients ==
  [session : SessionIds, ip : {"10.0.0.1", "10.0.0.2"}, ua : {Str(MOZILLA), Undefined}]

SubmitAt ==
  \E req \in HashClients : \E body \in AuthSubmissions : \E t \in {now, now + 1} :
    PostFeedback(req, body, t)

NextHash ==
  \/ SubmitAt
  \/ Tick

SpecHash == Init /\ [][NextHash]_vars

-----------------------------------------------------------------------------
(* SpecQuery: the admin's list of feedback under every kind of filter *)

GOOD == <<"G", "O", "O", "D">>
TODO == <<"T", "O", "D", "O">>

QuerySubmissions ==
  Bodies({Str(GENERAL_ID)}, {IntV(3), IntV(5)}, {Str(GOOD_COMMENT), IntV(12345)})

QueryUpdates == {[NoUpdate EXCEPT !.status = Str(IN_PROGRESS), !.admin_note = Str(NOTE)]}

\* every combination of six filters, and queries with one more kind of
\* filter value each
Queries ==
  [category : {Undefined, Str(ALL), Str(GENERAL_ID)},
   rating : {Undefined, Str(<<"3">>)},
   status : {Undefined, Str(OPEN)},
   startDate : {Undefined, Str(ToISOString(1))},
   endDate : {Undefined, Str(ToISOString(1))},
   search : {Undefined, Str(GOOD), Str(TODO)}]
  \cup {[NoQuery EXCEPT !.category = Str(UNKNOWN_ID)],
        [NoQuery EXCEPT !.rating = Str(ALL)],
        [NoQuery EXCEPT !.status = Str(ALL)],
        [NoQuery EXCEPT !.status = Str(IN_PROGRESS)],
        [NoQuery EXCEPT !.endDate = Str(<<>>)]}

NextQuery ==
  \/ Submit(One, QuerySubmissions)
  \/ Tick
  \/ DoLogin(One)
  \/ UpdateFeedback(One, Ids, QueryUpdates)
  \/ ListFeedback(One, Queries)

SpecQuery == Init /\ [][NextQuery]_vars

-----------------------------------------------------------------------------
(* SpecAnalytics: the statistics over stores of several ratings, statuses, *)
(* categories and comments                                                 *)

TALK_COMMENT ==
  <<"t", "a", "l", "k", " ", "T", "A", "L", "K", " ",
    "c", "o", "n", "s", "t", "r", "u", "c", "t", "o", "r">>
PROTO_COMMENT ==
  <<"_", "_", "p", "r", "o", "t", "o", "_", "_", " ",
    "_", "_", "p", "r", "o", "t", "o", "_", "_", " ", "t", "a", "l", "k">>
ABC == <<"a", "b", "c">>

AnalyticsSubmissions ==
  Bodies({Str(GENERAL_ID)}, {IntV(2), IntV(5), Str(ABC)}, {Str(GOOD_COMMENT)})
  \cup Bodies({Str(GENERAL_ID)}, {IntV(2)}, {Str(TALK_COMMENT), Str(PROTO_COMMENT)})
  \cup Bodies({Str(RandomUUID(1))}, {IntV(5)}, {Str(GOOD_COMMENT)})

NextAnalytics ==
  \/ Submit(One, AnalyticsSubmissions)
  \/ DoLogin(One)
  \/ CreateCategory(One, AuthCategoryBodies)
  \/ UpdateFeedback(One, Ids, AuthFeedbackUpdates)
  \/ ListFeedback(One, CoreQueries)
  \/ Analytics(One)

SpecAnalytics == Init /\ [][NextAnalytics]_vars

-----------------------------------------------------------------------------
(* SpecConcurrent: submissions, admin updates and deletes that the server  *)
(* holds at the same time, their handlers followed step by step            *)

StoredIds == {RandomUUID(n) : n \in 1..MaxUuids}

ConcurrentRequests ==
  {[op |-> "PostFeedback", req |-> Client("s1"), id |-> <<>>, body |-> body] :
     body \in AuthSubmissions}
  \cup {[op |-> "AdminPutFeedback", req |-> Client("s1"), id |-> id,
         body |-> [NoUpdate EXCEPT !.status = Str(COMPLETED)]] : id \in StoredIds}
  \cup {[op |-> "AdminDeleteFeedback", req |-> Client("s1"), id |-> RandomUUID(1),
         body |-> NoUpdate]}

NextConcurrent ==
  \/ DoLogin(One)
  \/ \E k \in Slots : \E request \in ConcurrentRequests : Receive(k, request)
  \/ \E k \in Slots : HandlerReads(k)
  \/ \E k \in Slots : HandlerWrites(k)

SpecConcurrent == Init /\ [][NextConcurrent]_vars

-----------------------------------------------------------------------------
(* SpecOrder: the admin's list of entries submitted at several times *)

OrderQueries ==
  {NoQuery,
   [NoQuery EXCEPT !.category = Str(GENERAL_ID)],
   [NoQuery EXCEPT !.rating = Str(<<"3">>)],
   [NoQuery EXCEPT !.status = Str(OPEN)],
   [NoQuery EXCEPT !.startDate = Str(ToISOString(1))],
   [NoQuery EXCEPT !.endDate = Str(ToISOString(1))],
   [NoQuery EXCEPT !.search = Str(GOOD)]}

NextOrder ==
  \/ Submit(One, AuthSubmissions)
  \/ Tick
  \/ DoLogin(One)
  \/ DeleteFeedback(One, AuthIds)
  \/ ListFeedback(One, OrderQueries)

SpecOrder == Init /\ [][NextOrder]_vars

-----------------------------------------------------------------------------
(* SpecCategory: submissions that name their category by id or by name,    *)
(* while an admin creates and renames categories, also to the id of        *)
(* another category                                                        *)

BUGS_UPPER == <<"B", "U", "G", "S">>

CategoryNameBodies ==
  {[name |-> Str(BUGS_NAME), description |-> Undefined],
   [name |-> Str(RandomUUID(1)), description |-> Undefined]}

CategorySubmissions ==
  Bodies({Str(GENERAL_ID), Str(GENERAL_UPPER), Str(RandomUUID(1)), Str(BUGS_UPPER),
          Str(UNKNOWN_ID)},
         {IntV(3)}, {Str(GOOD_COMMENT)})

NextCategory ==
  \/ Submit(One, CategorySubmissions)
  \/ DoLogin(One)
  \/ CreateCategory(One, AuthCategoryBodies)
  \/ UpdateCategory(One, AuthIds, CategoryNameBodies)

SpecCategory == Init /\ [][NextCategory]_vars

-----------------------------------------------------------------------------
(* SpecUpdate: admin updates and deletes of feedback, with every           *)
(* combination of status, note and category in the request                 *)

UpdateBodies ==
  [status : {Undefined, Str(IN_PROGRESS), Str(CLOSED)},
   admin_note : {Undefined, Str(NOTE)},
   category : {Undefined, Null, Str(GENERAL_ID), Str(RandomUUID(1)), Str(UNKNOWN_ID)}]

\* the ids of the first two records created, and one that none has
UpdateIds == {RandomUUID(1), RandomUUID(2), UNKNOWN_ID}

NextUpdate ==
  \/ Submit(One, AuthSubmissions)
  \/ DoLogin(One)
  \/ CreateCategory(One, AuthCategoryBodies)
  \/ UpdateFeedback(One, UpdateIds, UpdateBodies)
  \/ GetFeedback(One, UpdateIds)
  \/ DeleteFeedback(One, UpdateIds)

SpecUpdate == Init /\ [][NextUpdate]_vars

-----------------------------------------------------------------------------
(* SpecBulk: submissions at several times, and bulk deletes by an admin    *)
(* with every kind of ids: missing, empty, unknown, repeated, no texts,    *)
(* one and several                                                         *)

\* what a bulk delete can name: the id of every entry that can be stored,
\* and one that none has
BulkIds == {RandomUUID(n) : n \in 1..MaxUuids} \cup {UNKNOWN_ID}

BulkIdLists ==
  {[isArray |-> FALSE, items |-> <<>>], Array(<<>>), Array(<<IntV(1), Null>>)}
  \cup {Array(<<Str(id)>>) : id \in BulkIds}
  \cup {Array(<<Str(a), Str(b)>>) : a, b \in BulkIds}
  \cup {Array(<<Str(a), Str(UNKNOWN_ID), Str(b), Str(a)>>) : a, b \in BulkIds}

NextBulk ==
  \/ Submit(One, AuthSubmissions)
  \/ Tick
  \/ DoLogin(One)
  \/ ListFeedback(One, {NoQuery})
  \/ BulkDelete(One, BulkIdLists)

SpecBulk == Init /\ [][NextBulk]_vars

-----------------------------------------------------------------------------
(* SpecIds: every request that writes a collection: submissions, category  *)
(* create, rename and delete, feedback update, delete and bulk delete      *)

IdsFeedbackUpdates ==
  {[NoUpdate EXCEPT !.status = Str(IN_PROGRESS)],
   [NoUpdate EXCEPT !.admin_note = Str(NOTE), !.category = Str(RandomUUID(1))]}

IdsBulkIds == {Array(<<Str(RandomUUID(1)), Str(RandomUUID(2))>>)}

NextIds ==
  \/ Submit(One, AuthSubmissions)
  \/ DoLogin(One)
  \/ CreateCategory(One, AuthCategoryBodies)
  \/ UpdateCategory(One, Ids, CategoryNameBodies)
  \/ DeleteCategory(One, Ids)
  \/ UpdateFeedback(One, Ids, IdsFeedbackUpdates)
  \/ DeleteFeedback(One, Ids)
  \/ BulkDelete(One, IdsBulkIds)

SpecIds == Init /\ [][NextIds]_vars

-----------------------------------------------------------------------------
(* SpecCategoryAdmin: an admin creates and updates categories, with every  *)
(* combination of a name and a description that is missing, empty or a     *)
(* text, while feedback is stored                                          *)

CategoryAdminBodies ==
  [name : {Undefined, Str(<<>>), Str(BUGS_NAME), Str(MOZILLA)},
   description : {Undefined, Str(<<>>), Str(NOTE)}]

\* the id of the default category, of the first record created, and one
\* that none has
CategoryAdminIds == {GENERAL_ID, RandomUUID(1), UNKNOWN_ID}

NextCategoryAdmin ==
  \/ Submit(One, AuthSubmissions)
  \/ DoLogin(One)
  \/ CreateCategory(One, CategoryAdminBodies)
  \/ UpdateCategory(One, CategoryAdminIds, CategoryAdminBodies)

SpecCategoryAdmin == Init /\ [][NextCategoryAdmin]_vars

-----------------------------------------------------------------------------
(* Properties of the stored collections *)

CategoryIds == {categories[j].id : j \in 1..Len(categories)}

\* C1: referential integrity: every stored feedback entry's category is the
\* id of a category in the category collection, after any sequence of
\* submissions, admin updates, deletions and category requests.
ReferentialIntegrity ==
  \A i \in 1..Len(feedback) : feedback[i].category \in CategoryIds

\* an entry filed under a created category, after the default category was
\* deleted from under it
ReferentialIntegrityWitness ==
  /\ resp.op = "AdminDeleteCategory"
  /\ resp.status = 200
  /\ \E i \in 1..Len(feedback) : feedback[i].category = RandomUUID(1)

\* C2: DELETE /api/admin/categories/:id by an admin never changes the
\* feedback; it answers 404 without change for an unknown id, 400 without
\* change for a category some feedback entry references, and otherwise
\* removes that category and no other.
CategoryDeleteContract ==
  [][resp'.op = "AdminDeleteCategory" => \A s \in SessionIds : \A id \in Ids :
       (sessions[s] /\ AdminDeleteCategory(s, id)) =>
         LET exists == id \in CategoryIds
             referenced == \E i \in 1..Len(feedback) : feedback[i].category = id
         IN  /\ feedback' = feedback
             /\ ~exists => (resp'.status = 404 /\ categories' = categories)
             /\ (exists /\ referenced) => (resp'.status = 400 /\ categories' = categories)
             /\ (exists /\ ~referenced) =>
                  /\ resp'.status = 200
                  /\ Len(categories') = Len(categories) - 1
                  /\ categories' = SelectSeq(categories, LAMBDA c : c.id # id)]_vars

\* the delete of a category in use was refused
CategoryDeleteWitness ==
  /\ resp.op = "AdminDeleteCategory"
  /\ resp.status = 400
  /\ \E i \in 1..Len(feedback) : feedback[i].category \in CategoryIds

-----------------------------------------------------------------------------
(* Properties of a submission *)

\* C3: every feedback entry stored by POST /api/feedback has a rating that
\* is an integer in 1..5, whatever the request body was.
StoredRatingInRange ==
  \A i \in 1..Len(feedback) :
    LET r == feedback[i].rating
    IN  r.t = "number" /\ ~r.nan /\ ~r.neg /\ ~r.fz /\ r.ip \in 1..5

\* C4: every feedback entry stored by POST /api/feedback has a comment of
\* at least 5 characters.
StoredCommentLongEnough ==
  \A i \in 1..Len(feedback) :
    LET c == feedback[i].comment
    IN  c.t = "string" /\ Len(c.s) >= 5

\* C9: on a freshly initialised server, a submission from the home form
\* (one of its four categories, a rating in 1..5, a comment of at least 5
\* characters) is accepted with 201 and stored.
HomePageAccepted ==
  [][resp'.op = "PostFeedback" => \A body \in HomePageSubmissions :
       (categories = defaultCategories /\ PostFeedback(Client("s1"), body, now)) =>
         /\ resp'.status = 201
         /\ Len(feedback') = Len(feedback) + 1]_vars

-----------------------------------------------------------------------------
(* Properties of the stored hash *)

SameClient(a, b) == a.req = b.req

-----------------------------------------------------------------------------
(* Properties of the status field *)

Statuses == {OPEN, IN_PROGRESS, COMPLETED}

EntryWithId(list, id) == list[CHOOSE i \in 1..Len(list) : list[i].feedback_id = id]

HasId(list, id) == \E i \in 1..Len(list) : list[i].feedback_id = id

\* C5: an entry created by POST /api/feedback starts with status 'open' and
\* an empty admin note; every stored entry's status is always one of 'open',
\* 'in_progress', 'completed'; an admin's PUT with any other status is
\* rejected with 400 and changes nothing; and an admin's PUT with one of the
\* three values sets it, whatever the entry's status was.
StatusIsThreeValued ==
  /\ [](\A i \in 1..Len(feedback) : feedback[i].status \in Statuses)
  /\ [][resp'.op = "PostFeedback" => \A body \in AuthSubmissions :
          (PostFeedback(Client("s1"), body, now) /\ resp'.status = 201) =>
            /\ Len(feedback') = Len(feedback) + 1
            /\ feedback'[Len(feedback')].status = OPEN
            /\ feedback'[Len(feedback')].admin_note = <<>>]_vars
  /\ [][resp'.op = "AdminPutFeedback" =>
        \A s \in SessionIds : \A id \in Ids : \A body \in StatusUpdates :
          (sessions[s] /\ HasId(feedback, id) /\ AdminPutFeedback(s, id, body)) =>
            IF body.status = Undefined
            THEN EntryWithId(feedback', id).status = EntryWithId(feedback, id).status
            ELSE IF body.status.t = "string" /\ body.status.s \in Statuses
            THEN /\ resp'.status = 200
                 /\ EntryWithId(feedback', id).status = body.status.s
            ELSE /\ resp'.status = 400
                 /\ resp'.error = "Invalid status"
                 /\ feedback' = feedback]_vars

\* an update with a status outside the three was refused while an entry was
\* completed and another was back to open after an update
StatusIsThreeValuedWitness ==
  /\ resp.op = "AdminPutFeedback"
  /\ resp.status = 400
  /\ resp.error = "Invalid status"
  /\ \E i \in 1..Len(feedback) : feedback[i].status = COMPLETED
  /\ \E i \in 1..Len(feedback) : feedback[i].status = OPEN /\ feedback[i].admin_note = NOTE

-----------------------------------------------------------------------------
(* Properties of the admin session *)

AdminRoutes ==
  {"AdminGetCategories", "AdminPostCategory", "AdminPutCategory", "AdminDeleteCategory",
   "AdminGetFeedback", "AdminGetFeedbackById", "AdminPutFeedback", "AdminDeleteFeedback",
   "AdminBulkDelete", "AdminGetAnalytics"}

\* C6: a request to an admin data route on a session whose isAdmin flag is
\* not set answers 401 'Unauthorized', carries no data, and leaves the
\* feedback and the categories unchanged.
AdminRoutesNeedAdmin ==
  [][resp'.op \in AdminRoutes => \A s \in SessionIds :
       (~sessions[s] /\ AdminRequest(s)) =>
         /\ resp'.status = 401
         /\ resp'.error = "Unauthorized"
         /\ resp'.data = <<>>
         /\ feedback' = feedback
         /\ categories' = categories]_vars

\* a bulk delete was refused to one session while another was admin and
\* feedback and a created category were stored
AdminRoutesNeedAdminWitness ==
  /\ resp.op = "AdminBulkDelete"
  /\ resp.status = 401
  /\ feedback # <<>>
  /\ Len(categories) = 2
  /\ \E s \in SessionIds : sessions[s]
  /\ \E s \in SessionIds : ~sessions[s]

RightCredentials(c) == c[1] = Str(ADMIN_USERNAME) /\ c[2] = Str(ADMIN_PASSWORD)

-----------------------------------------------------------------------------
(* Properties of the admin's list of feedback *)

Restricts(v) == Truthy(v) /\ v # Str(ALL)

\* the entry satisfies every filter the query supplies
Matches(f, query) ==
  /\ Restricts(query.category) => f.category = query.category.s
  /\ Restricts(query.rating) => f.rating = IntV(DecimalValue(query.rating.s))
  /\ Restricts(query.status) =>
       (IF f.status = <<>> THEN OPEN ELSE f.status) = query.status.s
  /\ Truthy(query.startDate) =>
       DateParse(f.timestamp).ip >= DateParse(query.startDate.s).ip
  /\ Truthy(query.endDate) =>
       DateParse(f.timestamp).ip <= DateParse(query.endDate.s).ip
  /\ Truthy(query.search) =>
       \/ f.comment.t = "string"
          /\ Includes(ToLowerCase(f.comment.s), ToLowerCase(query.search.s))
       \/ Includes(ToLowerCase(f.admin_note), ToLowerCase(query.search.s))

Elements(list) == {list[i] : i \in 1..Len(list)}

\* C8: GET /api/admin/feedback by an admin returns exactly the stored
\* entries that satisfy every supplied filter (all of them when there is no
\* filter), each once.
ListIsTheMatchingEntries ==
  [][resp'.op = "AdminGetFeedback" => \A query \in Queries :
       (sessions["s1"] /\ AdminGetFeedback("s1", query)) =>
         /\ resp'.status = 200
         /\ Elements(resp'.data) = {f \in Elements(feedback) : Matches(f, query)}
         /\ Len(resp'.data) = Cardinality(Elements(resp'.data))]_vars

-----------------------------------------------------------------------------
(* Properties of the statistics *)

\* the keys under which the three distributions count an entry
CategoryKey(f) == f.category
RatingKey(f) == ToStringV(f.rating)
StatusKey(f) == IF f.status = <<>> THEN OPEN ELSE f.status

RECURSIVE SumOfCounts(_)
SumOfCounts(stats) ==
  IF stats = <<>> THEN 0 ELSE stats[1].value.ip + SumOfCounts(Tail(stats))

\* stats lists each key of keys once, with the number of its occurrences
CountsEachOnce(stats, keys) ==
  /\ \A i \in 1..Len(stats) :
       /\ stats[i].value.t = "number"
       /\ stats[i].value.ip >= 1
       /\ stats[i].value.ip = Cardinality({j \in 1..Len(keys) : keys[j] = stats[i].key})
       /\ \A j \in 1..Len(stats) : stats[j].key = stats[i].key => j = i
  /\ \A j \in 1..Len(keys) : \E i \in 1..Len(stats) : stats[i].key = keys[j]
  /\ SumOfCounts(stats) = Len(keys)

\* C11: GET /api/admin/analytics by an admin reports totalFeedback equal to
\* the number of stored entries, whatever list request came before, and each
\* of categoryStats, ratingStats and statusStats counts every stored entry
\* exactly once under its key (an entry without status under 'open'): every
\* count is the number of entries with that key, the counts of each
\* distribution sum to totalFeedback, and no key has count 0.
StatsCountEveryEntryOnce ==
  (resp.op = "AdminGetAnalytics" /\ resp.status = 200) =>
    LET body == resp.data[1]
    IN  /\ body.totalFeedback = Len(feedback)
        /\ CountsEachOnce(body.categoryStats,
                          [i \in 1..Len(feedback) |-> CategoryKey(feedback[i])])
        /\ CountsEachOnce(body.ratingStats,
                          [i \in 1..Len(feedback) |-> RatingKey(feedback[i])])
        /\ CountsEachOnce(body.statusStats,
                          [i \in 1..Len(feedback) |-> StatusKey(feedback[i])])

\* the statistics of two entries of one category and of two statuses
StatsCountEveryEntryOnceWitness ==
  /\ resp.op = "AdminGetAnalytics"
  /\ resp.status = 200
  /\ resp.data[1].totalFeedback = 2
  /\ Len(resp.data[1].categoryStats) = 1
  /\ resp.data[1].categoryStats[1].value = IntV(2)
  /\ Len(resp.data[1].statusStats) = 2

\* the number of tenths a text "d.d" of toFixed(1) stands for
TenthsOf(text) ==
  10 * DecimalValue(SubSeq(text, 1, Len(text) - 2)) + DigitVal(text[Len(text)])

RatingOf(f) == f.rating.ip

\* C12: the analytics averageRating is 0 when no feedback is stored and
\* otherwise the arithmetic mean of the ratings of all stored entries
\* rounded to one decimal place; it lies between the smallest and the
\* largest stored rating and, the entries being created through
\* POST /api/feedback, between 1 and 5.
AverageRatingIsTheMean ==
  (resp.op = "AdminGetAnalytics" /\ resp.status = 200) =>
    LET averageRating == resp.data[1].averageRating
        n == Len(feedback)
        sum == SumOfCounts([i \in 1..n |-> [value |-> [ip |-> RatingOf(feedback[i])]]])
        tenths == TenthsOf(averageRating.s)
    IN  IF n = 0 THEN averageRating = IntV(0)
        ELSE /\ averageRating.t = "string"
             /\ Len(averageRating.s) >= 3
             /\ averageRating.s[Len(averageRating.s) - 1] = "."
             /\ 2 * (tenths * n - 10 * sum) <= n
             /\ 2 * (10 * sum - tenths * n) <= n
             /\ \E i \in 1..n : 10 * RatingOf(feedback[i]) <= tenths
             /\ \E i \in 1..n : tenths <= 10 * RatingOf(feedback[i])
             /\ 10 <= tenths
             /\ tenths <= 50

\* the words of all stored comments: lower-cased, at least 4 word characters
WordsOfComments == MatchWords(ToLowerCase(JoinComments(feedback)))

Occurrences(word) ==
  Cardinality({k \in 1..Len(WordsOfComments) : WordsOfComments[k] = word})

\* C13: the analytics commonWords list has at most 10 entries, each entry's
\* count is the number of occurrences of its word across all comments, the
\* entries are in non-increasing order of count, no word is listed twice,
\* and no word left out of the list occurs strictly more often than a word
\* in it.
CommonWordsAreTheMostCommon ==
  (resp.op = "AdminGetAnalytics" /\ resp.status = 200) =>
    LET commonWords == resp.data[1].commonWords
        listed == {commonWords[i].word : i \in 1..Len(commonWords)}
    IN  /\ Len(commonWords) <= 10
        /\ \A i \in 1..Len(commonWords) :
             /\ Occurrences(commonWords[i].word) >= 1
             /\ commonWords[i].count = IntV(Occurrences(commonWords[i].word))
             /\ \A j \in 1..Len(commonWords) :
                  /\ i < j => commonWords[i].count.ip >= commonWords[j].count.ip
                  /\ commonWords[i].word = commonWords[j].word => i = j
        /\ \A k \in 1..Len(WordsOfComments) :
             WordsOfComments[k] \notin listed =>
               \A i \in 1..Len(commonWords) :
                 Occurrences(WordsOfComments[k]) <= Occurrences(commonWords[i].word)

-----------------------------------------------------------------------------
(* Properties of requests handled at the same time *)

\* C14: no update is lost when the server holds several requests at a time:
\* every submission answered 201 is in the feedback file unless a delete of
\* it was answered with success, every status an admin update was answered
\* 200 for is the stored status of its entry, and every handler writes back
\* the list it read from the file as it still is, so the content of the
\* file is that of the handlers run one after another in the order of
\* their writes.
NoLostUpdate ==
  /\ \A id \in answers.saved \ answers.deleted : HasId(feedback, id)
  /\ \A a \in answers.status :
       HasId(feedback, a[1]) => EntryWithId(feedback, a[1]).status = a[2]
  /\ \A k \in Slots : handlers[k].pc = "loaded" => handlers[k].feedback = feedback

\* two submissions were saved and one of them completed, while the server
\* held another request
NoLostUpdateWitness ==
  /\ answers.overlap
  /\ Cardinality(answers.saved) = 2
  /\ Len(feedback) = 2
  /\ answers.status # {}
  /\ resp.op = "AdminPutFeedback"
  /\ resp.status = 200
  /\ \E k \in Slots : handlers[k].pc = "received"

-----------------------------------------------------------------------------
(* Properties of the order of the admin's list *)

TimeOf(f) == DateParse(f.timestamp).ip

\* C15: the list GET /api/admin/feedback returns is ordered newest first:
\* for any two positions i < j of it, the timestamp of entry i is not
\* earlier than that of entry j, whatever filters the query supplies.
ListIsNewestFirst ==
  (resp.op = "AdminGetFeedback" /\ resp.status = 200) =>
    \A i \in 1..Len(resp.data) : \A j \in 1..Len(resp.data) :
      i < j => TimeOf(resp.data[i]) >= TimeOf(resp.data[j])

\* a list of two entries of different times, stored oldest first and
\* returned newest first
ListIsNewestFirstWitness ==
  /\ resp.op = "AdminGetFeedback"
  /\ resp.status = 200
  /\ Len(resp.data) = 2
  /\ Len(feedback) = 2
  /\ TimeOf(feedback[1]) < TimeOf(feedback[2])
  /\ resp.data[1] = feedback[2]
  /\ resp.data[2] = feedback[1]

-----------------------------------------------------------------------------
(* Properties of the answer to a submission *)

\* the four reasons to reject a submission, as the claim words them: a
\* field is missing (absent, null, empty or 0), the comment is not a text of
\* at least 5 characters, the rating is not a number from 1 to 5 or its
\* decimal text, the category is no category's id and no category's name
Missing(body) == ~Truthy(body.category) \/ ~Truthy(body.rating) \/ ~Truthy(body.comment)

TooShort(body) == ~(body.comment.t = "string" /\ Len(body.comment.s) >= 5)

OutOfRange(body) ==
  LET n == ToNumber(body.rating)
  IN  ~(/\ body.rating.t \in {"number", "string"}
        /\ ~n.nan
        /\ ~n.neg
        /\ n.ip \in 1..5
        /\ n.ip = 5 => ~n.fz)

MatchesNoCategory(body) ==
  \A i \in 1..Len(categories) :
    /\ Str(categories[i].id) # body.category
    /\ ToLowerCase(categories[i].name) # ToLowerCase(ToStringV(body.category))

FirstFailedCheck(body) ==
  IF Missing(body) THEN "All fields are required"
  ELSE IF TooShort(body) THEN "Comment must be at least 5 characters long"
  ELSE IF OutOfRange(body) THEN "Rating must be between 1 and 5"
  ELSE IF MatchesNoCategory(body) THEN "Invalid category"
  ELSE ""

\* C16: POST /api/feedback answers 400 and leaves the feedback unchanged
\* when a field is missing, when the comment is too short, when the rating
\* is out of range, or when the category matches no category, reporting the
\* first of these checks that fails; otherwise it answers 201 and appends
\* exactly one entry, leaving the existing entries and the categories
\* unchanged.
RejectedSubmissionChangesNothing ==
  [][resp'.op = "PostFeedback" => \A body \in AnySubmissions :
       PostFeedback(Client("s1"), body, now) =>
         /\ categories' = categories
         /\ IF FirstFailedCheck(body) # ""
            THEN /\ resp'.status = 400
                 /\ resp'.error = FirstFailedCheck(body)
                 /\ feedback' = feedback
            ELSE /\ resp'.status = 201
                 /\ Len(feedback') = Len(feedback) + 1
                 /\ SubSeq(feedback', 1, Len(feedback)) = feedback]_vars

-----------------------------------------------------------------------------
(* Properties of the category of a submission *)

-----------------------------------------------------------------------------
(* Properties of an admin's update and delete of an entry *)

InvalidStatus(body) ==
  body.status # Undefined /\ ~(body.status.t = "string" /\ body.status.s \in Statuses)

InvalidCategory(body) ==
  body.category # Undefined /\
    ~(body.category.t = "string" /\ body.category.s \in CategoryIds)

\* C18: an admin's PUT /api/admin/feedback/:id is all-or-nothing: rejected
\* with 404 for an unknown id, with 400 for an invalid status and with 400
\* for an invalid category, it leaves the stored feedback unchanged, also
\* when the request carries a valid status or a note together with an
\* invalid category.
UpdateIsAllOrNothing ==
  [][resp'.op = "AdminPutFeedback" => \A id \in UpdateIds : \A body \in UpdateBodies :
       (sessions["s1"] /\ AdminPutFeedback("s1", id, body)) =>
         /\ resp'.status # 200 => feedback' = feedback
         /\ ~HasId(feedback, id) => resp'.status = 404
         /\ (HasId(feedback, id) /\ InvalidStatus(body)) =>
              (resp'.status = 400 /\ resp'.error = "Invalid status")
         /\ (HasId(feedback, id) /\ ~InvalidStatus(body) /\ InvalidCategory(body)) =>
              (resp'.status = 400 /\ resp'.error = "Invalid category")]_vars

\* an update with an invalid category was refused while an entry was stored
\* that an earlier update had set in progress with a note
UpdateIsAllOrNothingWitness ==
  /\ resp.op = "AdminPutFeedback"
  /\ resp.status = 400
  /\ resp.error = "Invalid category"
  /\ \E i \in 1..Len(feedback) :
       feedback[i].status = IN_PROGRESS /\ feedback[i].admin_note = NOTE
  /\ \E i \in 1..Len(feedback) :
       feedback[i].status = OPEN /\ feedback[i].admin_note = <<>>

\* C19: an accepted PUT /api/admin/feedback/:id changes only the status,
\* admin_note and category of the entry with that id, and of those only the
\* fields present in the request body; the entry's feedback_id, rating,
\* comment, timestamp and hash, every other entry, the number of entries
\* and the categories are unchanged.
UpdateChangesOnlyGivenFields ==
  [][(resp'.op = "AdminPutFeedback" /\ resp'.status = 200) =>
       \A id \in UpdateIds : \A body \in UpdateBodies :
         (sessions["s1"] /\ AdminPutFeedback("s1", id, body)) =>
           /\ categories' = categories
           /\ Len(feedback') = Len(feedback)
           /\ \A i \in 1..Len(feedback) :
                IF feedback[i].feedback_id # id THEN feedback'[i] = feedback[i]
                ELSE /\ feedback'[i].feedback_id = feedback[i].feedback_id
                     /\ feedback'[i].rating = feedback[i].rating
                     /\ feedback'[i].comment = feedback[i].comment
                     /\ feedback'[i].timestamp = feedback[i].timestamp
                     /\ feedback'[i].hash = feedback[i].hash
                     /\ feedback'[i].status =
                          IF body.status = Undefined THEN feedback[i].status
                          ELSE body.status.s
                     /\ feedback'[i].admin_note =
                          IF body.admin_note = Undefined THEN feedback[i].admin_note
                          ELSE body.admin_note.s
                     /\ feedback'[i].category =
                          IF body.category = Undefined THEN feedback[i].category
                          ELSE body.category.s]_vars

\* the second of two entries was set in progress with a note, the first is
\* as it was submitted
UpdateChangesOnlyGivenFieldsWitness ==
  /\ resp.op = "AdminPutFeedback"
  /\ resp.status = 200
  /\ Len(feedback) = 2
  /\ feedback[1].status = OPEN
  /\ feedback[1].admin_note = <<>>
  /\ feedback[2].status = IN_PROGRESS
  /\ feedback[2].admin_note = NOTE
  /\ resp.data = <<feedback[2]>>

\* the ids crypto.randomUUID() has returned so far
IssuedIds == {RandomUUID(n) : n \in 1..uuids}

\* C20: DELETE /api/admin/feedback/:id by an admin removes the entry with
\* that id and no other and answers success with deleted: 1; for an id no
\* stored entry has it answers 404 and changes nothing; and an id once
\* deleted stays absent, so that a later GET /api/admin/feedback/:id and a
\* second delete of the same id by an admin answer 404.
DeleteRemovesExactlyThatEntry ==
  /\ [][resp'.op = "AdminDeleteFeedback" => \A id \in UpdateIds :
          (sessions["s1"] /\ AdminDeleteFeedback("s1", id)) =>
            /\ categories' = categories
            /\ IF HasId(feedback, id)
               THEN /\ resp'.status = 200
                    /\ resp'.n = 1
                    /\ Len(feedback') = Len(feedback) - 1
                    /\ feedback' = SelectSeq(feedback, LAMBDA f : f.feedback_id # id)
                    /\ ~HasId(feedback', id)
               ELSE /\ resp'.status = 404
                    /\ feedback' = feedback]_vars
  /\ [][\A id \in IssuedIds : ~HasId(feedback, id) => ~HasId(feedback', id)]_vars
  /\ [][resp'.op = "AdminGetFeedbackById" => \A id \in UpdateIds :
          (sessions["s1"] /\ ~HasId(feedback, id) /\ AdminGetFeedbackById("s1", id)) =>
            resp'.status = 404]_vars

\* the first of two submitted entries is gone, the second is left, and a
\* request for an entry was answered 404
DeleteRemovesExactlyThatEntryWitness ==
  /\ resp.op = "AdminGetFeedbackById"
  /\ resp.status = 404
  /\ Len(submitLog) = 2
  /\ Len(feedback) = 1
  /\ feedback[1].feedback_id = submitLog[2].feedback_id

\* the values of body.ids that are texts naming a stored entry
Listed(ids) ==
  {i \in Positions(feedback) :
     \E j \in 1..Len(ids.items) : ids.items[j] = Str(feedback[i].feedback_id)}

\* C21: POST /api/admin/feedback/bulk-delete by an admin with a non-empty
\* array ids removes exactly the stored entries whose feedback_id is in ids
\* and keeps all others unchanged and in place; the deleted count it
\* reports is the number of entries removed, so ids that match nothing and
\* ids given twice add nothing to it and cause no error; when ids is
\* missing, not an array or empty it answers 400 and changes nothing.
BulkDeleteRemovesTheListed ==
  [][resp'.op = "AdminBulkDelete" => \A ids \in BulkIdLists :
       (sessions["s1"] /\ AdminBulkDelete("s1", ids)) =>
         /\ categories' = categories
         /\ IF ids.isArray /\ Len(ids.items) > 0
            THEN /\ resp'.status = 200
                 /\ feedback' = SelectSeq(feedback, LAMBDA f :
                      \A j \in 1..Len(ids.items) : ids.items[j] # Str(f.feedback_id))
                 /\ Len(feedback') = Len(feedback) - Cardinality(Listed(ids))
                 /\ resp'.n = Cardinality(Listed(ids))
            ELSE /\ resp'.status = 400
                 /\ feedback' = feedback]_vars

\* a bulk delete removed the second of two submitted entries and kept the
\* first
BulkDeleteRemovesTheListedWitness ==
  /\ resp.op = "AdminBulkDelete"
  /\ resp.status = 200
  /\ resp.n = 1
  /\ Len(submitLog) = 2
  /\ Len(feedback) = 1
  /\ feedback[1].feedback_id = submitLog[1].feedback_id

\* the ids of the stored feedback entries and of the categories, in the
\* order of the records
FeedbackIdList == [i \in Positions(feedback) |-> feedback[i].feedback_id]
CategoryIdList == [i \in Positions(categories) |-> categories[i].id]

NoTwoEqual(ids) == \A i, j \in 1..Len(ids) : ids[i] = ids[j] => i = j

\* after is before with some records removed and none changed, or before
\* followed by one record whose id is not among used
KeptOrAppended(before, after, used) ==
  \/ after = SelectSeq(before, LAMBDA id : id \in Elements(after))
  \/ /\ Len(after) = Len(before) + 1
     /\ SubSeq(after, 1, Len(before)) = before
     /\ after[Len(after)] \notin used

\* C22: identifiers are unique and stable: no two stored feedback entries
\* share a feedback_id and no two categories share an id; a new feedback
\* entry or category receives an id that no stored record of either
\* collection has; and no request changes the id of a stored feedback entry
\* or category: each collection's ids stay as they are, in their order,
\* except for records removed and for one new record at the end.
IdentifiersUniqueAndStable ==
  /\ [](NoTwoEqual(FeedbackIdList) /\ NoTwoEqual(CategoryIdList))
  /\ [][LET used == Elements(FeedbackIdList) \cup Elements(CategoryIdList)
        IN  /\ KeptOrAppended(FeedbackIdList, FeedbackIdList', used)
            /\ KeptOrAppended(CategoryIdList, CategoryIdList', used)]_vars

\* a category and a feedback entry were created, each under its own id, and
\* the category was then renamed to the text of its id
IdentifiersUniqueAndStableWitness ==
  /\ resp.op = "AdminPutCategory"
  /\ resp.status = 200
  /\ Len(categories) = 2
  /\ categories[2].id = RandomUUID(1)
  /\ categories[2].name = RandomUUID(1)
  /\ Len(feedback) = 1
  /\ feedback[1].feedback_id = RandomUUID(2)

\* a request body without a name: none, or the empty text
NoName(body) == body.name = Undefined \/ body.name = Str(<<>>)

\* C23: category create and update by an admin. POST /api/admin/categories
\* without a name (none, or the empty text) answers 400 and changes nothing;
\* otherwise it appends one category with the given name and the given
\* description, '' when none is given, and leaves the categories stored
\* unchanged. PUT /api/admin/categories/:id answers 404 without change for
\* an id no category has; otherwise it leaves every other category as it is
\* and changes of that category only the name, to a non-empty name given,
\* and the description, to a description given (the empty text included).
\* Neither changes the feedback collection.
CategoryWritesChangeOnlyTheirFields ==
  /\ [][resp'.op = "AdminPostCategory" => \A body \in CategoryAdminBodies :
          (sessions["s1"] /\ AdminPostCategory("s1", body)) =>
            /\ feedback' = feedback
            /\ IF NoName(body)
               THEN /\ resp'.status = 400
                    /\ categories' = categories
               ELSE /\ resp'.status = 201
                    /\ Len(categories') = Len(categories) + 1
                    /\ SubSeq(categories', 1, Len(categories)) = categories
                    /\ categories'[Len(categories')].name = body.name.s
                    /\ categories'[Len(categories')].description =
                         (IF body.description = Undefined THEN <<>>
                          ELSE body.description.s)]_vars
  /\ [][resp'.op = "AdminPutCategory" =>
          \A id \in CategoryAdminIds : \A body \in CategoryAdminBodies :
          (sessions["s1"] /\ AdminPutCategory("s1", id, body)) =>
            /\ feedback' = feedback
            /\ IF id \notin CategoryIds
               THEN /\ resp'.status = 404
                    /\ categories' = categories
               ELSE /\ resp'.status = 200
                    /\ Len(categories') = Len(categories)
                    /\ \A i \in 1..Len(categories) :
                         IF categories[i].id # id
                         THEN categories'[i] = categories[i]
                         ELSE /\ categories'[i].id = id
                              /\ categories'[i].name =
                                   (IF NoName(body) THEN categories[i].name
                                    ELSE body.name.s)
                              /\ categories'[i].description =
                                   (IF body.description = Undefined
                                    THEN categories[i].description
                                    ELSE body.description.s)]_vars

\* with one feedback entry stored, a category was created without a
\* description, and the default category was renamed and kept its
\* description
CategoryWritesChangeOnlyTheirFieldsWitness ==
  /\ resp.op = "AdminPutCategory"
  /\ resp.status = 200
  /\ Len(feedback) = 1
  /\ Len(categories) = 2
  /\ categories[1].id = GENERAL_ID
  /\ categories[1].name = BUGS_NAME
  /\ categories[1].description = GENERAL_DESCRIPTION
  /\ categories[2].name = MOZILLA
  /\ categories[2].description = <<>>

====
